---- MODULE Spec2Model ----
(***************************************************************************)
(* Node-join coordination of `ray start` (python/ray/scripts/scripts.py):  *)
(* the command `start` and its helper check_no_existing_redis_clients.     *)
(* Every join attempt is one invocation of `start`; the attempts share one *)
(* Redis instance (the registry).                                          *)
(*                                                                         *)
(* Strings are sequences of characters; an optional value is <<>> (None)   *)
(* or <<v>>.                                                               *)
(***************************************************************************)
EXTENDS Integers, Sequences, FiniteSets, TLC

\* ------------------------------------------------------------- bounds

\* The number of join attempts that may run against the one registry.
NumAttempts == 2
\* The connection attempts wait_for_redis_to_start makes before it gives up.
MaxRetries == 2
\* The longest "deleted" field value SpecDecode enumerates.
MaxDelLen == 2
\* The largest --num-redis-shards value SpecArgs enumerates.
MaxShards == 2
\* The number of client records SpecScan puts in the registry at most.
MaxRecords == 2
\* The longest --resources text (in members) SpecRes enumerates.
MaxResLen == 2

Procs == 1..NumAttempts

None == <<>>
Some(v) == <<v>>

\* ------------------------------------------------------------ strings

Digits == {"0", "1", "2", "3", "6", "7", "8", "9"}

DigitVal(c) ==
  CASE c = "0" -> 0 [] c = "1" -> 1 [] c = "2" -> 2 [] c = "3" -> 3
    [] c = "6" -> 6 [] c = "7" -> 7 [] c = "8" -> 8 [] c = "9" -> 9
    [] OTHER -> 0

RECURSIVE SplitFrom(_, _, _, _)
\* str.split(sep) of a string: the pieces between the occurrences of sep
\* (cur is the piece being read, i the position).
SplitFrom(s, sep, i, cur) ==
  IF i > Len(s) THEN <<cur>>
  ELSE IF s[i] = sep THEN <<cur>> \o SplitFrom(s, sep, i + 1, <<>>)
  ELSE SplitFrom(s, sep, i + 1, Append(cur, s[i]))

Split(s, sep) == SplitFrom(s, sep, 1, <<>>)

RECURSIVE Join(_, _)
\* sep.join(parts)
Join(parts, sep) ==
  IF Len(parts) = 0 THEN <<>>
  ELSE IF Len(parts) = 1 THEN parts[1]
  ELSE parts[1] \o <<sep>> \o Join(Tail(parts), sep)

RECURSIVE DigitsValue(_)
\* The number a run of decimal digits denotes.
DigitsValue(s) ==
  IF Len(s) = 0 THEN 0
  ELSE 10 * DigitsValue(SubSeq(s, 1, Len(s) - 1)) + DigitVal(s[Len(s)])

IsDigits(s) == Len(s) > 0 /\ \A i \in 1..Len(s) : s[i] \in Digits

\* int(s): an optionally signed run of decimal digits, anything else raises
\* ValueError.
ParseInt(s) ==
  IF IsDigits(s) THEN [ok |-> TRUE, val |-> DigitsValue(s)]
  ELSE IF Len(s) > 1 /\ s[1] = "-" /\ IsDigits(Tail(s))
    THEN [ok |-> TRUE, val |-> 0 - DigitsValue(Tail(s))]
  ELSE [ok |-> FALSE, val |-> 0]

\* ----------------------------------------------------- name resolution

IP5 == "10.0.0.5"
IP6 == "10.0.0.6"
RedisIP == "10.0.0.1"
NumericIPs == {IP5, IP6, RedisIP}

\* The hostnames the resolver knows; any other name does not resolve.
HostTable == [hostA |-> IP5, hostR |-> RedisIP]

\* socket.gethostbyname: a numeric address is itself, a known name its address.
Resolves(host) == host \in NumericIPs \/ host \in DOMAIN HostTable
Resolve(host) == IF host \in NumericIPs THEN host ELSE HostTable[host]

\* The host part of the address is a name, which only the resolver can turn
\* into a numerical address.
IsHostname(address) == Split(address, ":")[1][1] \notin NumericIPs

\* services.address_to_ip: the host part (before the first ":") is resolved,
\* the rest of the address is kept.
address_to_ip_ok(address) ==
  LET parts == Split(address, ":")
  IN Len(parts[1]) = 1 /\ Resolves(parts[1][1])

address_to_ip(address) ==
  LET parts == Split(address, ":")
  IN Join(<<<<Resolve(parts[1][1])>>>> \o Tail(parts), ":")

\* services.get_node_ip_address: the address of one of this machine's
\* interfaces.
LocalIPs == {IP5, IP6}

\* ------------------------------------------------------------- errors

NoError == "none"
LookupFailed == "LookupFailed"
ResourcesUnparseable == "ResourcesUnparseable"
ReservedNameConflict == "ReservedNameConflict"
ArgumentConflict == "ArgumentConflict"
MissingArgument == "MissingArgument"
MalformedAddress == "MalformedAddress"
MalformedPort == "MalformedPort"
RegistryUnreachable == "RegistryUnreachable"
VersionMismatch == "VersionMismatch"
FieldMissing == "FieldMissing"
DecodeError == "DecodeError"
DuplicateNodeRegistration == "DuplicateNodeRegistration"
BootstrapFailed == "BootstrapFailed"

\* ---------------------------------------------------------- resources

\* The --resources text is a flat JSON object: a list of name/quantity
\* members, or text json.loads rejects.
Garbage == [name |-> "", qty |-> 0, bad |-> TRUE]
Member(n, q) == [name |-> n, qty |-> q, bad |-> FALSE]

JsonParses(text) == \A i \in 1..Len(text) : ~text[i].bad

\* json.loads of a flat object: one entry per name, the last member of a
\* repeated name wins.
JsonLoads(text) ==
  LET names == {text[i].name : i \in 1..Len(text)}
      last(n) == CHOOSE i \in 1..Len(text) :
                   /\ text[i].name = n
                   /\ \A j \in 1..Len(text) : text[j].name = n => j <= i
  IN [n \in names |-> text[last(n)].qty]

\* d[k] = v of a Python dict.
DictSet(d, k, v) == [n \in DOMAIN d \cup {k} |-> IF n = k THEN v ELSE d[n]]

\* SetExplicit with `if num_cpus:` for `if num_cpus is not None:`: a count of
\* zero is taken for none.
SetExplicit_Truthy(resources, num_cpus, num_gpus) ==
  LET withCpu == IF num_cpus # None /\ num_cpus[1] # 0
                 THEN DictSet(resources, "CPU", num_cpus[1])
                 ELSE resources
  IN IF num_gpus # None /\ num_gpus[1] # 0
     THEN DictSet(withCpu, "GPU", num_gpus[1]) ELSE withCpu

\* Lines 226-229: the explicit CPU and GPU counts, when given, are stored
\* under their reserved names.
SetExplicit(resources, num_cpus, num_gpus) ==
  LET withCpu == IF num_cpus # None THEN DictSet(resources, "CPU", num_cpus[1])
                 ELSE resources
  IN IF num_gpus # None THEN DictSet(withCpu, "GPU", num_gpus[1]) ELSE withCpu

\* ResourceError without the assertion on "GPU".
ResourceError_GpuAllowed(text) ==
  IF ~JsonParses(text) THEN ResourcesUnparseable
  ELSE IF "CPU" \in DOMAIN JsonLoads(text) THEN ReservedNameConflict
  ELSE NoError

\* Lines 216-229: the error of the resource step, NoError when it passes.
ResourceError(text) ==
  IF ~JsonParses(text) THEN ResourcesUnparseable
  ELSE IF "CPU" \in DOMAIN JsonLoads(text) THEN ReservedNameConflict
  ELSE IF "GPU" \in DOMAIN JsonLoads(text) THEN ReservedNameConflict
  ELSE NoError

\* -------------------------------------------------------------- state

Str(c) == <<c>>
\* A value read from Redis is bytes, not str.
Bytes(s) == [b |-> s]
\* ray.utils.decode: bytes to str.
decode(x) == x.b

\* Line 24, and the key of the version record in the same Redis instance.
REDIS_CLIENT_TABLE_PREFIX == "CL:"
VersionKey == <<"VERSION_INFO">>
\* The version of the build that runs `start`.
MyVersion == Str("v1")

VARIABLES
  inp,          \* the arguments each attempt was invoked with
  loc,          \* the local variables of start
  pc,           \* where each attempt is in start
  err,          \* the exception that ended the attempt
  retries,      \* failed connection attempts of wait_for_redis_to_start
  client_keys,  \* the keys check_no_existing_redis_clients has still to visit
  boot,         \* the arguments passed to start_ray_head / start_ray_node
  address_info, \* what the bootstrap call returned
  logged,       \* the address bundle start has logged
  steps,        \* the I/O each attempt has done, in order (polls once)
  redis,        \* the registry: key -> hash
  redis_up      \* whether the registry accepts connections

vars == <<inp, loc, pc, err, retries, client_keys, boot, address_info, logged,
          steps, redis, redis_up>>

NoErr == [kind |-> NoError, arg |-> ""]
Raise(kind, arg) == [kind |-> kind, arg |-> arg]

\* The locals of start as it is entered: the arguments, nothing derived yet.
InitLoc(a) ==
  [node_ip_address |-> a.node_ip_address,
   redis_address |-> a.redis_address,
   resources |-> [n \in {} |-> 0],
   num_redis_shards |-> a.num_redis_shards,
   redis_shard_ports |-> a.redis_shard_ports,
   redis_ip_address |-> None,
   redis_port |-> a.redis_port]

\* An attempt ends by raising e.
Fail(p, e) ==
  /\ pc' = [pc EXCEPT ![p] = "failed"]
  /\ err' = [err EXCEPT ![p] = e]

Goto(p, label) ==
  /\ pc' = [pc EXCEPT ![p] = label]
  /\ UNCHANGED err

Log(p, events) == steps' = [steps EXCEPT ![p] = @ \o events]

\* ------------------------------------------------- start, lines 210-229

\* Lines 210-214: hostnames are converted to numerical IP addresses, the
\* node's first, then the registry's; each hostname is a lookup.
ConvertAddresses(p) ==
  /\ pc[p] = "convert"
  /\ LET a == loc[p].node_ip_address
         r == loc[p].redis_address
         nodeOk == a = None \/ address_to_ip_ok(a[1])
         redisOk == r = None \/ address_to_ip_ok(r[1])
         looked == (IF a # None /\ IsHostname(a[1]) THEN <<"lookup">> ELSE <<>>)
                   \o (IF nodeOk /\ r # None /\ IsHostname(r[1])
                       THEN <<"lookup">> ELSE <<>>)
     IN /\ Log(p, looked)
        /\ IF ~nodeOk THEN Fail(p, Raise(LookupFailed, "node_ip_address")) /\ UNCHANGED loc
           ELSE IF ~redisOk THEN Fail(p, Raise(LookupFailed, "redis_address")) /\ UNCHANGED loc
           ELSE /\ Goto(p, "resources")
                /\ loc' = [loc EXCEPT
                     ![p].node_ip_address =
                        IF a = None THEN None ELSE Some(address_to_ip(a[1])),
                     ![p].redis_address =
                        IF r = None THEN None ELSE Some(address_to_ip(r[1]))]
  /\ UNCHANGED <<inp, retries, client_keys, boot, address_info, logged, redis, redis_up>>

\* Lines 216-229: the resource specification.
BuildResources(p) ==
  /\ pc[p] = "resources"
  /\ LET e == ResourceError(inp[p].resources)
     IN IF e # NoError
        THEN Fail(p, Raise(e, "resources")) /\ UNCHANGED loc
        ELSE /\ Goto(p, IF inp[p].head THEN "head_validate" ELSE "worker_validate")
             /\ loc' = [loc EXCEPT ![p].resources =
                          SetExplicit(JsonLoads(inp[p].resources),
                                      inp[p].num_cpus, inp[p].num_gpus)]
  /\ UNCHANGED <<inp, retries, client_keys, boot, address_info, logged, steps, redis,
                 redis_up>>

\* ------------------------------------------- start, the head branch

\* Lines 233-238: the shard ports as a list and the number of shards, which
\* is the length of the list when --num-redis-shards is not given.
HeadShardPorts(l) ==
  IF l.redis_shard_ports = None THEN None
  ELSE Some(Split(l.redis_shard_ports[1], ","))

HeadNumShards(l) ==
  IF l.redis_shard_ports # None /\ l.num_redis_shards = None
  THEN Some(Len(HeadShardPorts(l)[1]))
  ELSE l.num_redis_shards

\* HeadError without the check that no registry address is given.
HeadError_AddressAllowed(l) ==
  IF /\ l.redis_shard_ports # None
     /\ Len(HeadShardPorts(l)[1]) # HeadNumShards(l)[1]
  THEN Raise(ArgumentConflict, "num_redis_shards")
  ELSE NoErr

\* HeadError without the check that the shard count is the number of ports.
HeadError_NoCountCheck(l) ==
  IF l.redis_address # None THEN Raise(ArgumentConflict, "redis_address")
  ELSE NoErr

\* Lines 233-250: the exception head validation raises, NoErr when it passes.
HeadError(l) ==
  IF /\ l.redis_shard_ports # None
     /\ Len(HeadShardPorts(l)[1]) # HeadNumShards(l)[1]
  THEN Raise(ArgumentConflict, "num_redis_shards")
  ELSE IF l.redis_address # None THEN Raise(ArgumentConflict, "redis_address")
  ELSE NoErr

\* Lines 252-254 and 334-336: the node's address as given, or else the one
\* services.get_node_ip_address finds.
NodeIPChoices(l) ==
  IF l.node_ip_address = None THEN {Some(Str(ip)) : ip \in LocalIPs}
  ELSE {l.node_ip_address}

\* HeadValidate followed by the duplicate check: a head whose arguments pass
\* goes on to list the client keys.
HeadValidate_ThenScan(p) ==
  /\ pc[p] = "head_validate"
  /\ IF HeadError(loc[p]) # NoErr
     THEN Fail(p, HeadError(loc[p])) /\ UNCHANGED <<loc, steps>>
     ELSE /\ Goto(p, "scan_keys")
          /\ \E a \in NodeIPChoices(loc[p]) :
               loc' = [loc EXCEPT
                 ![p].redis_shard_ports = HeadShardPorts(loc[p]),
                 ![p].num_redis_shards = HeadNumShards(loc[p]),
                 ![p].node_ip_address = a]
          /\ Log(p, IF loc[p].node_ip_address = None THEN <<"lookup">> ELSE <<>>)
  /\ UNCHANGED <<inp, retries, client_keys, boot, address_info, logged, redis, redis_up>>

\* Lines 231-256.
HeadValidate(p) ==
  /\ pc[p] = "head_validate"
  /\ IF HeadError(loc[p]) # NoErr
     THEN Fail(p, HeadError(loc[p])) /\ UNCHANGED <<loc, steps>>
     ELSE /\ Goto(p, "start_head")
          /\ \E a \in NodeIPChoices(loc[p]) :
               loc' = [loc EXCEPT
                 ![p].redis_shard_ports = HeadShardPorts(loc[p]),
                 ![p].num_redis_shards = HeadNumShards(loc[p]),
                 ![p].node_ip_address = a]
          /\ Log(p, IF loc[p].node_ip_address = None THEN <<"lookup">> ELSE <<>>)
  /\ UNCHANGED <<inp, retries, client_keys, boot, address_info, logged, redis, redis_up>>

\* What start passes to the bootstrap call (the arguments the model tracks).
BootArgs(kind, l) ==
  [kind |-> kind,
   node_ip_address |-> l.node_ip_address,
   redis_address |-> l.redis_address,
   resources |-> l.resources,
   num_redis_shards |-> l.num_redis_shards,
   redis_shard_ports |-> l.redis_shard_ports]

\* The address bundle a successful bootstrap returns.
AddressInfo(kind, l) ==
  [node_ip_address |-> l.node_ip_address[1],
   redis_address |-> IF kind = "head" THEN l.node_ip_address[1] \o <<":">>
                     ELSE l.redis_address[1]]

\* Lines 258-281: services.start_ray_head, which returns or raises; what it
\* returns is logged.
StartRayHead(p) ==
  /\ pc[p] = "start_head"
  /\ boot' = [boot EXCEPT ![p] = Some(BootArgs("head", loc[p]))]
  /\ Log(p, <<"start_ray_head">>)
  /\ \E ok \in BOOLEAN :
       IF ok THEN /\ Goto(p, "block")
                  /\ address_info' = [address_info EXCEPT ![p] =
                                        Some(AddressInfo("head", loc[p]))]
                  /\ logged' = [logged EXCEPT ![p] = address_info'[p]]
       ELSE Fail(p, Raise(BootstrapFailed, "start_ray_head"))
            /\ UNCHANGED <<address_info, logged>>
  /\ UNCHANGED <<inp, loc, retries, client_keys, redis, redis_up>>

\* ----------------------------------------- start, the worker branch

\* WorkerError with the registry address checked first.
WorkerError_AddressFirst(a, l) ==
  IF l.redis_address = None THEN Raise(MissingArgument, "redis_address")
  ELSE IF l.redis_port # None THEN Raise(ArgumentConflict, "redis_port")
  ELSE IF l.redis_shard_ports # None THEN Raise(ArgumentConflict, "redis_shard_ports")
  ELSE IF l.num_redis_shards # None THEN Raise(ArgumentConflict, "num_redis_shards")
  ELSE IF a.redis_max_clients # None THEN Raise(ArgumentConflict, "redis_max_clients")
  ELSE IF a.no_ui THEN Raise(ArgumentConflict, "no_ui")
  ELSE IF Len(Split(l.redis_address[1], ":")) # 2 THEN Raise(MalformedAddress, "redis_address")
  ELSE NoErr

\* WorkerError with a lenient split: only an address without a separator is
\* malformed, whatever follows a second separator is dropped.
WorkerError_LenientSplit(a, l) ==
  IF l.redis_port # None THEN Raise(ArgumentConflict, "redis_port")
  ELSE IF l.redis_shard_ports # None THEN Raise(ArgumentConflict, "redis_shard_ports")
  ELSE IF l.redis_address = None THEN Raise(MissingArgument, "redis_address")
  ELSE IF l.num_redis_shards # None THEN Raise(ArgumentConflict, "num_redis_shards")
  ELSE IF a.redis_max_clients # None THEN Raise(ArgumentConflict, "redis_max_clients")
  ELSE IF a.no_ui THEN Raise(ArgumentConflict, "no_ui")
  ELSE IF Len(Split(l.redis_address[1], ":")) < 2 THEN Raise(MalformedAddress, "redis_address")
  ELSE NoErr

\* WorkerError with --no-ui checked first.
WorkerError_UiFirst(a, l) ==
  IF a.no_ui THEN Raise(ArgumentConflict, "no_ui")
  ELSE IF l.redis_port # None THEN Raise(ArgumentConflict, "redis_port")
  ELSE IF l.redis_shard_ports # None THEN Raise(ArgumentConflict, "redis_shard_ports")
  ELSE IF l.redis_address = None THEN Raise(MissingArgument, "redis_address")
  ELSE IF l.num_redis_shards # None THEN Raise(ArgumentConflict, "num_redis_shards")
  ELSE IF a.redis_max_clients # None THEN Raise(ArgumentConflict, "redis_max_clients")
  ELSE IF Len(Split(l.redis_address[1], ":")) # 2 THEN Raise(MalformedAddress, "redis_address")
  ELSE NoErr

\* WorkerError without the check of --no-ui.
WorkerError_NoUiAllowed(a, l) ==
  IF l.redis_port # None THEN Raise(ArgumentConflict, "redis_port")
  ELSE IF l.redis_shard_ports # None THEN Raise(ArgumentConflict, "redis_shard_ports")
  ELSE IF l.redis_address = None THEN Raise(MissingArgument, "redis_address")
  ELSE IF l.num_redis_shards # None THEN Raise(ArgumentConflict, "num_redis_shards")
  ELSE IF a.redis_max_clients # None THEN Raise(ArgumentConflict, "redis_max_clients")
  ELSE IF Len(Split(l.redis_address[1], ":")) # 2 THEN Raise(MalformedAddress, "redis_address")
  ELSE NoErr

\* Lines 301-319: the exception worker validation raises, NoErr when it
\* passes.
WorkerError(a, l) ==
  IF l.redis_port # None THEN Raise(ArgumentConflict, "redis_port")
  ELSE IF l.redis_shard_ports # None THEN Raise(ArgumentConflict, "redis_shard_ports")
  ELSE IF l.redis_address = None THEN Raise(MissingArgument, "redis_address")
  ELSE IF l.num_redis_shards # None THEN Raise(ArgumentConflict, "num_redis_shards")
  ELSE IF a.redis_max_clients # None THEN Raise(ArgumentConflict, "redis_max_clients")
  ELSE IF a.no_ui THEN Raise(ArgumentConflict, "no_ui")
  ELSE IF Len(Split(l.redis_address[1], ":")) # 2 THEN Raise(MalformedAddress, "redis_address")
  ELSE NoErr

\* WorkerValidate without the wait for the registry: the version is read from
\* a registry nobody has found reachable.
WorkerValidate_NoWait(p) ==
  /\ pc[p] = "worker_validate"
  /\ IF WorkerError(inp[p], loc[p]) # NoErr
     THEN Fail(p, WorkerError(inp[p], loc[p])) /\ UNCHANGED loc
     ELSE /\ Goto(p, "check_version")
          /\ loc' = [loc EXCEPT
               ![p].redis_ip_address = Some(Split(loc[p].redis_address[1], ":")[1]),
               ![p].redis_port = Some(Split(loc[p].redis_address[1], ":")[2])]
  /\ UNCHANGED <<inp, retries, client_keys, boot, address_info, logged, steps, redis,
                 redis_up>>

\* WorkerValidate with the node's address looked up at once, as the head
\* branch does, when none was given.
WorkerValidate_ResolveFirst(p) ==
  /\ pc[p] = "worker_validate"
  /\ IF WorkerError(inp[p], loc[p]) # NoErr
     THEN Fail(p, WorkerError(inp[p], loc[p])) /\ UNCHANGED <<loc, steps>>
     ELSE /\ Goto(p, "wait_redis")
          /\ \E a \in NodeIPChoices(loc[p]) :
               loc' = [loc EXCEPT
                 ![p].redis_ip_address = Some(Split(loc[p].redis_address[1], ":")[1]),
                 ![p].redis_port = Some(Split(loc[p].redis_address[1], ":")[2]),
                 ![p].node_ip_address = a]
          /\ Log(p, IF loc[p].node_ip_address = None THEN <<"lookup">> ELSE <<>>)
  /\ UNCHANGED <<inp, retries, client_keys, boot, address_info, logged, redis,
                 redis_up>>

\* Lines 299-319.
WorkerValidate(p) ==
  /\ pc[p] = "worker_validate"
  /\ IF WorkerError(inp[p], loc[p]) # NoErr
     THEN Fail(p, WorkerError(inp[p], loc[p])) /\ UNCHANGED loc
     ELSE /\ Goto(p, "wait_redis")
          /\ loc' = [loc EXCEPT
               ![p].redis_ip_address = Some(Split(loc[p].redis_address[1], ":")[1]),
               ![p].redis_port = Some(Split(loc[p].redis_address[1], ":")[2])]
  /\ UNCHANGED <<inp, retries, client_keys, boot, address_info, logged, steps, redis,
                 redis_up>>

\* services.wait_for_redis_to_start: one more connection attempt, after
\* `failed` failed ones: "ready", "retry", or "timeout" when the budget is spent.
PollOutcome(up, failed) ==
  IF up THEN "ready"
  ELSE IF failed + 1 >= MaxRetries THEN "timeout"
  ELSE "retry"

\* WaitForRedis without a budget: a failed connection attempt is always
\* followed by another.
WaitForRedis_Unbounded(p) ==
  /\ pc[p] = "wait_redis"
  /\ IF ~ParseInt(loc[p].redis_port[1]).ok
     THEN Fail(p, Raise(MalformedPort, "redis_address")) /\ UNCHANGED <<retries, steps>>
     ELSE /\ Log(p, (IF retries[p] = 0 THEN <<"connect">> ELSE <<>>)
                     \o (IF redis_up THEN <<"ready">> ELSE <<>>))
          /\ IF redis_up
             THEN Goto(p, "check_version") /\ retries' = [retries EXCEPT ![p] = 0]
             ELSE retries' = [retries EXCEPT ![p] = 1] /\ UNCHANGED <<pc, err>>
  /\ UNCHANGED <<inp, loc, client_keys, boot, address_info, logged, redis, redis_up>>

\* Lines 321-324: int(redis_port), then one connection attempt of
\* wait_for_redis_to_start, whose count of failures is gone when it returns.
\* The attempts to connect are logged once, with the first.
WaitForRedis(p) ==
  /\ pc[p] = "wait_redis"
  /\ IF ~ParseInt(loc[p].redis_port[1]).ok
     THEN Fail(p, Raise(MalformedPort, "redis_address")) /\ UNCHANGED <<retries, steps>>
     ELSE LET outcome == PollOutcome(redis_up, retries[p])
          IN /\ Log(p, (IF retries[p] = 0 THEN <<"connect">> ELSE <<>>)
                       \o (IF outcome = "ready" THEN <<"ready">> ELSE <<>>))
             /\ IF outcome = "ready"
                THEN Goto(p, "check_version") /\ retries' = [retries EXCEPT ![p] = 0]
                ELSE /\ retries' = [retries EXCEPT ![p] = @ + 1]
                     /\ IF outcome = "timeout"
                        THEN Fail(p, Raise(RegistryUnreachable, "redis_address"))
                        ELSE UNCHANGED <<pc, err>>
  /\ UNCHANGED <<inp, loc, client_keys, boot, address_info, logged, redis, redis_up>>

\* services.check_version_info: the registry's version record against this
\* build's version.
VersionMatches(store) == decode(store[VersionKey].value) = MyVersion

\* CheckVersion with a retry: after a mismatch the attempt waits for the
\* registry and reads the version again.
CheckVersion_Retrying(p) ==
  /\ pc[p] = "check_version"
  /\ Log(p, <<"read_version">>
            \o (IF VersionMatches(redis) THEN <<"version_ok">> ELSE <<>>))
  /\ Goto(p, IF VersionMatches(redis) THEN "get_ip" ELSE "wait_redis")
  /\ UNCHANGED <<inp, loc, retries, client_keys, boot, address_info, logged, redis,
                 redis_up>>

\* CheckVersion with the result ignored: the version is read and the attempt
\* goes on whatever it is.
CheckVersion_Ignored(p) ==
  /\ pc[p] = "check_version"
  /\ Log(p, <<"read_version">>
            \o (IF VersionMatches(redis) THEN <<"version_ok">> ELSE <<>>))
  /\ Goto(p, "get_ip")
  /\ UNCHANGED <<inp, loc, retries, client_keys, boot, address_info, logged, redis,
                 redis_up>>

\* Lines 326-332: the Redis client is created and the version is checked.
CheckVersion(p) ==
  /\ pc[p] = "check_version"
  /\ Log(p, <<"read_version">>
            \o (IF VersionMatches(redis) THEN <<"version_ok">> ELSE <<>>))
  /\ IF VersionMatches(redis) THEN Goto(p, "get_ip")
     ELSE Fail(p, Raise(VersionMismatch, "redis_address"))
  /\ UNCHANGED <<inp, loc, retries, client_keys, boot, address_info, logged, redis,
                 redis_up>>

\* Lines 334-338: the node's address is looked up when none was given.
GetNodeIP(p) ==
  /\ pc[p] = "get_ip"
  /\ Goto(p, "scan_keys")
  /\ \E a \in NodeIPChoices(loc[p]) :
       loc' = [loc EXCEPT ![p].node_ip_address = a]
  /\ Log(p, IF loc[p].node_ip_address = None THEN <<"lookup">> ELSE <<>>)
  /\ UNCHANGED <<inp, retries, client_keys, boot, address_info, logged, redis, redis_up>>

\* ------------------------------------ check_no_existing_redis_clients

ClientFields == {"ray_client_id", "node_ip_address", "client_type", "deleted"}

\* redis_client.keys("CL:*")
Keys(store, prefix) == {k \in DOMAIN store : k[1] = prefix}

\* redis_client.hgetall(key): the hash at key, empty when there is none.
HGetAll(store, key) ==
  IF key \in DOMAIN store THEN store[key] ELSE [f \in {} |-> Bytes(<<>>)]

\* DeletedFlag as bool(deleted): any value that is not empty counts as true.
DeletedFlag_NoInt(deleted) == [ok |-> TRUE, val |-> Len(deleted.b) > 0]

\* Lines 35-36: bool(int(deleted)).
DeletedFlag(deleted) ==
  [ok |-> ParseInt(deleted.b).ok, val |-> ParseInt(deleted.b).val # 0]

\* ClientVerdict with the deleted flag looked at first: a record marked
\* deleted is skipped whatever else it holds.
ClientVerdict_DeletedFirst(info, node_ip_address) ==
  IF /\ "deleted" \in DOMAIN info
     /\ DeletedFlag(info["deleted"]).ok
     /\ DeletedFlag(info["deleted"]).val
  THEN "skip"
  ELSE IF ~(ClientFields \subseteq DOMAIN info) THEN FieldMissing
  ELSE IF ~DeletedFlag(info["deleted"]).ok THEN DecodeError
  ELSE IF decode(info["node_ip_address"]) = node_ip_address
    THEN DuplicateNodeRegistration
  ELSE "pass"

\* ClientVerdict without the `continue` for a record marked deleted.
ClientVerdict_DeletedCounts(info, node_ip_address) ==
  IF ~(ClientFields \subseteq DOMAIN info) THEN FieldMissing
  ELSE IF ~DeletedFlag(info["deleted"]).ok THEN DecodeError
  ELSE IF decode(info["node_ip_address"]) = node_ip_address
    THEN DuplicateNodeRegistration
  ELSE "pass"

\* Lines 28-42, one turn of the loop: the exception it raises, "skip" for a
\* record marked deleted, "pass" for a live record of another address.
ClientVerdict(info, node_ip_address) ==
  IF ~(ClientFields \subseteq DOMAIN info) THEN FieldMissing
  ELSE IF ~DeletedFlag(info["deleted"]).ok THEN DecodeError
  ELSE IF DeletedFlag(info["deleted"]).val THEN "skip"
  ELSE IF decode(info["node_ip_address"]) = node_ip_address
    THEN DuplicateNodeRegistration
  ELSE "pass"

\* The client record a started node has in the registry.
ClientRecord(id, ip, deleted) ==
  [ray_client_id |-> Bytes(Str(id)), node_ip_address |-> Bytes(Str(ip)),
   client_type |-> Bytes(Str("raylet")), deleted |-> Bytes(deleted)]

\* The registry after the node that attempt p started has registered.
RegisterClient(store, p, ip) ==
  LET key == <<REDIS_CLIENT_TABLE_PREFIX, ToString(p)>>
  IN [k \in DOMAIN store \cup {key} |->
        IF k = key THEN ClientRecord(ToString(p), ip, Str("0")) ELSE store[k]]

\* ScanKeys with a write: the attempt puts its client record in the registry
\* as the scan begins.
ScanKeys_Registering(p) ==
  /\ pc[p] = "scan_keys"
  /\ client_keys' = [client_keys EXCEPT ![p] = Keys(redis, REDIS_CLIENT_TABLE_PREFIX)]
  /\ Log(p, <<"keys">>)
  /\ Goto(p, "check_client")
  /\ redis' = RegisterClient(redis, p, loc[p].node_ip_address[1][1])
  /\ UNCHANGED <<inp, loc, retries, boot, address_info, logged, redis_up>>

\* Lines 24-25: the client keys are listed.
ScanKeys(p) ==
  /\ pc[p] = "scan_keys"
  /\ client_keys' = [client_keys EXCEPT ![p] = Keys(redis, REDIS_CLIENT_TABLE_PREFIX)]
  /\ Log(p, <<"keys">>)
  /\ Goto(p, "check_client")
  /\ UNCHANGED <<inp, loc, retries, boot, address_info, logged, redis, redis_up>>

\* CheckClient with `break` for `continue`: the loop ends at the first record
\* marked deleted.
CheckClient_BreakOnDeleted(p) ==
  /\ pc[p] = "check_client"
  /\ IF client_keys[p] = {}
     THEN Goto(p, "start_node") /\ Log(p, <<"clear">>) /\ UNCHANGED client_keys
     ELSE \E key \in client_keys[p] :
            LET verdict == ClientVerdict(HGetAll(redis, key),
                                         loc[p].node_ip_address[1])
            IN /\ client_keys' = [client_keys EXCEPT ![p] =
                                    IF verdict = "skip" THEN {} ELSE @ \ {key}]
               /\ Log(p, <<"hgetall">>)
               /\ IF verdict \in {"skip", "pass"} THEN UNCHANGED <<pc, err>>
                  ELSE Fail(p, Raise(verdict, key[2]))
  /\ UNCHANGED <<inp, loc, retries, boot, address_info, logged, redis, redis_up>>

\* Lines 27-42: the next key of the loop, in whatever order keys() gave them;
\* the check returns when none is left.
CheckClient(p) ==
  /\ pc[p] = "check_client"
  /\ IF client_keys[p] = {}
     THEN Goto(p, "start_node") /\ Log(p, <<"clear">>) /\ UNCHANGED client_keys
     ELSE \E key \in client_keys[p] :
            LET verdict == ClientVerdict(HGetAll(redis, key),
                                         loc[p].node_ip_address[1])
            IN /\ client_keys' = [client_keys EXCEPT ![p] = @ \ {key}]
               /\ Log(p, <<"hgetall">>)
               /\ IF verdict \in {"skip", "pass"} THEN UNCHANGED <<pc, err>>
                  ELSE Fail(p, Raise(verdict, key[2]))
  /\ UNCHANGED <<inp, loc, retries, boot, address_info, logged, redis, redis_up>>

\* Whether the registry holds a live record of address ip.
LiveRecordOf(store, ip) ==
  \E k \in Keys(store, REDIS_CLIENT_TABLE_PREFIX) :
    ClientVerdict(HGetAll(store, k), ip) = DuplicateNodeRegistration

\* StartRayNode as a conditional write: a node registers only while the
\* registry holds no live record of its address.
StartRayNode_Guarded(p) ==
  /\ pc[p] = "start_node"
  /\ ~LiveRecordOf(redis, loc[p].node_ip_address[1])
  /\ boot' = [boot EXCEPT ![p] = Some(BootArgs("node", loc[p]))]
  /\ Log(p, <<"start_ray_node">>)
  /\ Goto(p, "block")
  /\ address_info' = [address_info EXCEPT ![p] = Some(AddressInfo("node", loc[p]))]
  /\ logged' = [logged EXCEPT ![p] = address_info'[p]]
  /\ redis' = RegisterClient(redis, p, loc[p].node_ip_address[1][1])
  /\ UNCHANGED <<inp, loc, retries, client_keys, redis_up>>

\* StartRayNode with the failure reported in full: what is known of the
\* addresses is logged when start_ray_node raises.
StartRayNode_LogsOnFailure(p) ==
  /\ pc[p] = "start_node"
  /\ boot' = [boot EXCEPT ![p] = Some(BootArgs("node", loc[p]))]
  /\ Log(p, <<"start_ray_node">>)
  /\ \E ok \in BOOLEAN :
       IF ok THEN /\ Goto(p, "block")
                  /\ address_info' = [address_info EXCEPT ![p] =
                                        Some(AddressInfo("node", loc[p]))]
                  /\ logged' = [logged EXCEPT ![p] = address_info'[p]]
                  /\ redis' = RegisterClient(redis, p, loc[p].node_ip_address[1][1])
       ELSE /\ Fail(p, Raise(BootstrapFailed, "start_ray_node"))
            /\ logged' = [logged EXCEPT ![p] = Some(AddressInfo("node", loc[p]))]
            /\ UNCHANGED <<address_info, redis>>
  /\ UNCHANGED <<inp, loc, retries, client_keys, redis_up>>

\* Lines 343-361: services.start_ray_node, which returns or raises; what it
\* returns is logged, and the node it starts registers in the client table.
StartRayNode(p) ==
  /\ pc[p] = "start_node"
  /\ boot' = [boot EXCEPT ![p] = Some(BootArgs("node", loc[p]))]
  /\ Log(p, <<"start_ray_node">>)
  /\ \E ok \in BOOLEAN :
       IF ok THEN /\ Goto(p, "block")
                  /\ address_info' = [address_info EXCEPT ![p] =
                                        Some(AddressInfo("node", loc[p]))]
                  /\ logged' = [logged EXCEPT ![p] = address_info'[p]]
                  /\ redis' = RegisterClient(redis, p, loc[p].node_ip_address[1][1])
       ELSE Fail(p, Raise(BootstrapFailed, "start_ray_node"))
            /\ UNCHANGED <<address_info, logged, redis>>
  /\ UNCHANGED <<inp, loc, retries, client_keys, redis_up>>

\* Block with the test negated: the command idles when --block is not given.
Block_Inverted(p) ==
  /\ pc[p] = "block"
  /\ Goto(p, IF ~inp[p].block THEN "idle" ELSE "exit")
  /\ UNCHANGED <<inp, loc, retries, client_keys, boot, address_info, logged, steps,
                 redis, redis_up>>

\* Lines 366-369: with --block the command never returns.
Block(p) ==
  /\ pc[p] = "block"
  /\ Goto(p, IF inp[p].block THEN "idle" ELSE "exit")
  /\ UNCHANGED <<inp, loc, retries, client_keys, boot, address_info, logged, steps,
                 redis, redis_up>>

\* Lines 368-369: one turn of the idle loop.
Sleep(p) ==
  /\ pc[p] = "idle"
  /\ UNCHANGED vars

\* The registry comes up (the head node of the cluster starts it).
RedisStarts ==
  /\ ~redis_up
  /\ redis_up' = TRUE
  /\ UNCHANGED <<inp, loc, pc, err, retries, client_keys, boot, address_info, logged,
                 steps, redis>>

\* ------------------------------------------------------ initial states

GoodAddress == <<RedisIP, ":", "6", "3", "7", "9">>
NamedAddress == <<"hostR", ":", "6", "3", "7", "9">>
NoSeparator == <<RedisIP>>
TwoSeparators == <<RedisIP, ":", "6", "3", "7", "9", ":", "1">>
BadPort == <<RedisIP, ":", "x">>

\* `ray start --redis-address 10.0.0.1:6379`: every other option left out.
BaseArgs ==
  [head |-> FALSE, node_ip_address |-> None, redis_address |-> Some(GoodAddress),
   redis_port |-> None, num_redis_shards |-> None, redis_max_clients |-> None,
   redis_shard_ports |-> None, num_cpus |-> None, num_gpus |-> None,
   resources |-> <<>>, no_ui |-> FALSE, block |-> FALSE]

VersionRecord(v) == [value |-> Bytes(Str(v))]

\* A registry with the version record v and the client records of `clients`
\* (record id -> hash).
Store(v, clients) ==
  [k \in {VersionKey} \cup {<<REDIS_CLIENT_TABLE_PREFIX, id>> : id \in DOMAIN clients} |->
     IF k = VersionKey THEN VersionRecord(v) ELSE clients[k[2]]]

NoClients == [id \in {} |-> ClientRecord("", IP5, Str("0"))]

\* The state in which the attempts of `active` are about to run start with
\* the arguments a[p] against the registry `store`.
StartState(a, active, store, up) ==
  /\ inp = a
  /\ loc = [p \in Procs |-> InitLoc(a[p])]
  /\ pc = [p \in Procs |-> IF p \in active THEN "convert" ELSE "none"]
  /\ err = [p \in Procs |-> NoErr]
  /\ retries = [p \in Procs |-> 0]
  /\ client_keys = [p \in Procs |-> {}]
  /\ boot = [p \in Procs |-> None]
  /\ address_info = [p \in Procs |-> None]
  /\ logged = [p \in Procs |-> None]
  /\ steps = [p \in Procs |-> <<>>]
  /\ redis = store
  /\ redis_up = up

\* Concurrent attempts: workers with and without a node address, a worker
\* without a registry address, and a head.
JoinArgs ==
  {BaseArgs,
   [BaseArgs EXCEPT !.node_ip_address = Some(Str(IP5)), !.block = TRUE],
   [BaseArgs EXCEPT !.redis_address = None],
   [BaseArgs EXCEPT !.head = TRUE, !.redis_address = None, !.block = TRUE]}

\* info without its field `field`.
Lacking(info, field) == [f \in DOMAIN info \ {field} |-> info[f]]

\* Registries of the build's version without client records, with a live, a
\* deleted or a malformed record, and registries of another version without
\* client records and with a live record.
JoinStores ==
  {Store("v1", c) :
     c \in {NoClients,
            [id \in {"a"} |-> ClientRecord("a", IP5, Str("0"))],
            [id \in {"a"} |-> ClientRecord("a", IP5, Str("1"))],
            [id \in {"a"} |->
               Lacking(ClientRecord("a", IP6, Str("0")), "client_type")]}}
  \cup {Store("v2", c) :
          c \in {NoClients,
                 [id \in {"a"} |-> ClientRecord("a", IP5, Str("0"))]}}

\* Every attempt runs: the first two with any of the arguments, each further
\* one as a worker at 10.0.0.5.
Init ==
  \E a \in [Procs -> JoinArgs], store \in JoinStores, up \in BOOLEAN :
    /\ \A p \in Procs \ {1, 2} :
         a[p] = [BaseArgs EXCEPT !.node_ip_address = Some(Str(IP5)), !.block = TRUE]
    /\ StartState(a, Procs, store, up)

Step(p) ==
  \/ ConvertAddresses(p)
  \/ BuildResources(p)
  \/ HeadValidate(p)
  \/ StartRayHead(p)
  \/ WorkerValidate(p)
  \/ WaitForRedis(p)
  \/ CheckVersion(p)
  \/ GetNodeIP(p)
  \/ ScanKeys(p)
  \/ CheckClient(p)
  \/ StartRayNode(p)
  \/ Block(p)
  \/ Sleep(p)

Next == RedisStarts \/ \E p \in Procs : Step(p)

Spec == Init /\ [][Next]_vars

\* One attempt, its arguments drawn from every combination of the options
\* that start validates.
ShardPort(i) == <<"6", "3", "8", ToString(i - 1)>>
\* "6380", "6380,6381", ...: n shard ports.
ShardPortsText(n) == Join([i \in 1..n |-> ShardPort(i)], ",")

FullArgs ==
  {[head |-> h, node_ip_address |-> n, redis_address |-> r, redis_port |-> rp,
    num_redis_shards |-> ns, redis_max_clients |-> mc, redis_shard_ports |-> sp,
    num_cpus |-> c, num_gpus |-> None, resources |-> res, no_ui |-> ui,
    block |-> FALSE] :
     h \in BOOLEAN,
     n \in {None, Some(Str(IP5)), Some(Str("hostA"))},
     r \in {None, Some(GoodAddress), Some(NamedAddress), Some(NoSeparator),
            Some(TwoSeparators), Some(BadPort)},
     rp \in {None, Some(6379)},
     ns \in {None} \cup {Some(k) : k \in 1..(MaxShards + 1)},
     mc \in {None, Some(100)},
     sp \in {None} \cup {Some(ShardPortsText(k)) : k \in 1..MaxShards},
     c \in {None, Some(0)},
     res \in {<<>>, <<Member("Custom", 3)>>, <<Member("CPU", 1)>>, <<Garbage>>},
     ui \in BOOLEAN}
  \cup {[BaseArgs EXCEPT !.block = TRUE],
        [BaseArgs EXCEPT !.head = TRUE, !.redis_address = None, !.block = TRUE],
        [BaseArgs EXCEPT !.node_ip_address = Some(Str("nohost"))],
        [BaseArgs EXCEPT !.head = TRUE, !.redis_address = None,
                         !.node_ip_address = Some(Str("nohost"))]}

OnlyFirst(a) == [p \in Procs |-> IF p = 1 THEN a ELSE BaseArgs]

InitArgs ==
  \E a \in FullArgs :
    StartState(OnlyFirst(a), {1},
               Store("v1", [id \in {"a"} |-> ClientRecord("a", IP6, Str("0"))]),
               FALSE)

SpecArgs == InitArgs /\ [][Next]_vars

\* One attempt, its resource arguments drawn from every --resources text of
\* at most MaxResLen members and every --num-cpus / --num-gpus.
ResourceNames == {"CPU", "GPU", "Custom"}
Members == {Member(n, q) : n \in ResourceNames, q \in {1, 2}} \cup {Garbage}
Texts == UNION {[1..k -> Members] : k \in 0..MaxResLen}

ResArgs ==
  {[BaseArgs EXCEPT !.head = h, !.node_ip_address = n, !.redis_address = r,
                    !.num_cpus = c, !.num_gpus = g, !.resources = res,
                    !.block = h] :
     h \in BOOLEAN, n \in {None, Some(Str("nohost"))},
     r \in {None, Some(GoodAddress)},
     c \in {None, Some(0), Some(2)}, g \in {None, Some(0), Some(1)},
     res \in Texts}

InitRes ==
  \E a \in ResArgs :
    StartState(OnlyFirst(a), {1}, Store("v1", NoClients), FALSE)

SpecRes == InitRes /\ [][Next]_vars

\* One attempt against a registry of up to MaxRecords client records, well
\* formed and not.
RecordId(i) == "r" \o ToString(i)

ScanRecords ==
  {ClientRecord("n", ip, d) : ip \in {IP5, IP6}, d \in {Str("0"), Str("1")}}
  \cup {Lacking(ClientRecord("n", IP5, Str("0")), f) : f \in ClientFields}
  \cup {Lacking(ClientRecord("n", IP5, Str("1")), "client_type"),
        Lacking(ClientRecord("n", IP6, Str("0")), "ray_client_id"),
        ClientRecord("n", IP5, Str("2")),
        ClientRecord("n", IP5, Str("x"))}

ScanStores ==
  UNION {{Store("v1", [id \in {RecordId(i) : i \in 1..k} |->
                         recs[CHOOSE i \in 1..k : RecordId(i) = id]]) :
            recs \in [1..k -> ScanRecords]} : k \in 0..MaxRecords}

ScanArgs ==
  {BaseArgs,
   [BaseArgs EXCEPT !.node_ip_address = Some(Str(IP5)), !.block = TRUE],
   [BaseArgs EXCEPT !.node_ip_address = Some(Str(IP6))],
   [BaseArgs EXCEPT !.node_ip_address = Some(Str("hostA")),
                    !.redis_address = Some(NamedAddress)],
   [BaseArgs EXCEPT !.head = TRUE, !.redis_address = None]}

InitScan ==
  \E a \in ScanArgs, store \in ScanStores :
    StartState(OnlyFirst(a), {1}, store, FALSE)

SpecScan == InitScan /\ [][Next]_vars

\* Two attempts at address 10.0.0.5 (or one, beside a head) against one
\* registry of up to MaxRecords client records, each attempt reading the
\* records in an order of its own.
OrderRecords ==
  {ClientRecord("n", IP5, Str("0")),
   ClientRecord("n", IP5, Str("1")),
   ClientRecord("n", IP6, Str("0")),
   Lacking(ClientRecord("n", IP6, Str("0")), "client_type"),
   ClientRecord("n", IP5, Str("x"))}

OrderStores ==
  UNION {{Store("v1", [id \in {RecordId(i) : i \in 1..k} |->
                         recs[CHOOSE i \in 1..k : RecordId(i) = id]]) :
            recs \in [1..k -> OrderRecords]} : k \in 0..MaxRecords}

OrderArgs ==
  {[p \in Procs |->
      IF p = 1 THEN [BaseArgs EXCEPT !.node_ip_address = Some(Str(IP5)),
                                     !.block = TRUE]
      ELSE IF p = 2 THEN second
      ELSE BaseArgs] :
     second \in {[BaseArgs EXCEPT !.node_ip_address = Some(Str(IP5))],
                 [BaseArgs EXCEPT !.head = TRUE, !.redis_address = None]}}

InitOrder ==
  \E a \in OrderArgs, store \in OrderStores :
    StartState(a, {1, 2}, store, FALSE)

SpecOrder == InitOrder /\ [][Next]_vars

\* One attempt at address 10.0.0.5 against a registry whose one client
\* record has that address and any "deleted" value of at most MaxDelLen
\* characters.
DelChars == {"0", "1", "2", "-", "x"}
DelStrings == UNION {[1..k -> DelChars] : k \in 0..MaxDelLen}

InitDecode ==
  \E a \in {[BaseArgs EXCEPT !.node_ip_address = Some(Str(IP5)), !.block = b] :
              b \in BOOLEAN}
           \cup {[BaseArgs EXCEPT !.head = TRUE, !.redis_address = None]},
     d \in DelStrings :
    StartState(OnlyFirst(a), {1},
               Store("v1", [id \in {"r1"} |-> ClientRecord("n", IP5, d)]), FALSE)

SpecDecode == InitDecode /\ [][Next]_vars

\* One attempt that keeps running: the process that runs start is scheduled
\* until it exits, raises, or sleeps in the idle loop; nothing obliges the
\* registry to come up.
LiveArgs ==
  JoinArgs \cup {[BaseArgs EXCEPT !.redis_address = Some(BadPort)],
                 [BaseArgs EXCEPT !.no_ui = TRUE, !.block = TRUE],
                 [BaseArgs EXCEPT !.head = TRUE, !.redis_address = None]}

InitLive ==
  \E a \in LiveArgs, store \in JoinStores, up \in BOOLEAN :
    StartState(OnlyFirst(a), {1}, store, up)

SpecLive ==
  InitLive /\ [][Next]_vars /\ \A p \in Procs : WF_vars(Step(p))

\* ------------------------------------------------------------ claims

Has(s, e) == \E i \in 1..Len(s) : s[i] = e
Count(s, e) == Cardinality({i \in 1..Len(s) : s[i] = e})

RECURSIVE Without(_, _)
\* s without the events of `drop`.
Without(s, drop) ==
  IF Len(s) = 0 THEN <<>>
  ELSE IF s[1] \in drop THEN Without(Tail(s), drop)
  ELSE <<s[1]>> \o Without(Tail(s), drop)

IsPrefix(s, t) == Len(s) <= Len(t) /\ \A i \in 1..Len(s) : s[i] = t[i]

\* The registry steps of a worker attempt, in the order start takes them.
WorkerOrder ==
  <<"connect", "ready", "read_version", "version_ok", "keys", "clear",
    "start_ray_node">>

\* C1: in every worker attempt, whatever the other attempts do, the registry
\* steps happen in one order with none left out: the wait succeeds before the
\* version is read, the version check passes before the client keys are
\* listed, the duplicate check returns Clear before start_ray_node is called.
C1_JoinOrder ==
  \A p \in Procs :
    ~inp[p].head =>
      /\ IsPrefix(Without(steps[p], {"lookup", "hgetall"}), WorkerOrder)
      /\ \A i \in 1..Len(steps[p]) :
           steps[p][i] = "hgetall" =>
             \E j \in 1..(i - 1) : steps[p][j] = "keys"

\* A worker attempt has gone through every step and called start_ray_node
\* while another attempt was still running.
C1_Witness ==
  \E p, q \in Procs :
    /\ p # q
    /\ ~inp[p].head
    /\ Has(steps[p], "start_ray_node")
    /\ Has(steps[p], "hgetall")
    /\ pc[q] \in {"wait_redis", "check_version", "scan_keys", "check_client"}

\* The client records in the registry that no attempt of the model wrote.
GivenKeys ==
  {k \in Keys(redis, REDIS_CLIENT_TABLE_PREFIX) :
     k[2] \notin {ToString(q) : q \in Procs}}

\* A record with the four fields and a "deleted" of "0" or "1".
WellFormed(info) ==
  /\ ClientFields \subseteq DOMAIN info
  /\ info["deleted"].b \in {Str("0"), Str("1")}

\* The duplicate check of attempt p is over.
ScanOver(p) ==
  /\ Has(steps[p], "keys")
  /\ pc[p] \in {"start_node", "failed"}

\* C2: against a registry of well-formed client records the duplicate check
\* raises DuplicateNodeRegistration exactly when some record with deleted "0"
\* has the node's address; it raises nothing else.
C2_ConflictIffLiveMatch ==
  \A p \in Procs :
    ScanOver(p) /\ (\A k \in GivenKeys : WellFormed(redis[k])) =>
      LET live == \E k \in GivenKeys :
                    /\ redis[k]["deleted"].b = Str("0")
                    /\ redis[k]["node_ip_address"].b = loc[p].node_ip_address[1]
      IN /\ err[p].kind = DuplicateNodeRegistration <=> live
         /\ err[p].kind \in {NoError, DuplicateNodeRegistration, BootstrapFailed}
         /\ ~live => Has(steps[p], "clear")

\* The check has returned Clear at address 10.0.0.5 against a registry with
\* a deleted record of 10.0.0.5 and a live record of 10.0.0.6.
C2_Witness ==
  \E p \in Procs :
    /\ pc[p] = "start_node"
    /\ loc[p].node_ip_address = Some(Str(IP5))
    /\ \A k \in GivenKeys : WellFormed(redis[k])
    /\ \E k \in GivenKeys : /\ redis[k]["deleted"].b = Str("1")
                            /\ redis[k]["node_ip_address"].b = Str(IP5)
    /\ \E k \in GivenKeys : /\ redis[k]["deleted"].b = Str("0")
                            /\ redis[k]["node_ip_address"].b = Str(IP6)

\* C3: the duplicate check takes no lock: an attempt whose scan returned
\* Clear goes on to bootstrap whatever has been registered since, so two
\* attempts with one address that both scanned a registry without a live
\* record of it both bootstrap.
C3_NoMutualExclusion ==
  \A p \in Procs : pc[p] = "start_node" => ENABLED StartRayNode(p)

\* Two worker attempts with the same address, against a registry that held no
\* live record of it, have both had Clear from the scan and both bootstrapped.
C3_Witness ==
  \E p, q \in Procs :
    /\ p # q
    /\ ~inp[p].head /\ ~inp[q].head
    /\ loc[p].node_ip_address = loc[q].node_ip_address
    /\ Has(steps[p], "clear") /\ Has(steps[q], "clear")
    /\ address_info[p] # None /\ address_info[q] # None
    /\ \A k \in Keys(redis, REDIS_CLIENT_TABLE_PREFIX) :
         k[2] \notin {ToString(r) : r \in Procs} =>
           ClientVerdict(HGetAll(redis, k), loc[p].node_ip_address[1])
             # DuplicateNodeRegistration

\* An attempt that runs, and one that is over.
Active(p) == pc[p] # "none"
Ended(p) == pc[p] \in {"failed", "exit", "idle"}

\* The conversion of a supplied address to a numerical address fails.
ConversionFails(a) ==
  \/ a.node_ip_address # None /\ ~address_to_ip_ok(a.node_ip_address[1])
  \/ a.redis_address # None /\ ~address_to_ip_ok(a.redis_address[1])

\* The --resources text names a reserved resource.
Reserved(a) ==
  \E i \in 1..Len(a.resources) : a.resources[i].name \in {"CPU", "GPU"}

\* The error of lines 210-229 on arguments a, NoError when they pass.
PreambleError(a) ==
  IF ConversionFails(a) THEN LookupFailed
  ELSE IF \E i \in 1..Len(a.resources) : a.resources[i].bad
    THEN ResourcesUnparseable
  ELSE IF Reserved(a) THEN ReservedNameConflict
  ELSE NoError

\* The hostnames given on the command line as node or registry address.
HostnamesGiven(a) ==
  (IF a.node_ip_address # None /\ IsHostname(a.node_ip_address[1]) THEN 1 ELSE 0)
  + (IF a.redis_address # None /\ IsHostname(a.redis_address[1]) THEN 1 ELSE 0)

\* C4 as stated: a worker attempt without a registry address fails with
\* MissingArgument, whatever its other arguments, and never tries to connect.
C4_Original ==
  \A p \in Procs :
    Active(p) /\ ~inp[p].head /\ inp[p].redis_address = None =>
      /\ ~Has(steps[p], "connect")
      /\ Ended(p) => pc[p] = "failed" /\ err[p].kind = MissingArgument

\* C4: a worker attempt without a registry address fails before any
\* connection attempt; the error is MissingArgument unless an earlier check
\* fails: the address conversion, the resource text, --redis-port or
\* --redis-shard-ports, which are checked before the registry address.
C4_MissingAddress ==
  \A p \in Procs :
    Active(p) /\ ~inp[p].head /\ inp[p].redis_address = None =>
      /\ ~Has(steps[p], "connect")
      /\ boot[p] = None
      /\ pc[p] \in {"convert", "resources", "worker_validate", "failed"}
      /\ pc[p] = "failed" =>
           err[p].kind =
             IF PreambleError(inp[p]) # NoError THEN PreambleError(inp[p])
             ELSE IF inp[p].redis_port # None \/ inp[p].redis_shard_ports # None
               THEN ArgumentConflict
             ELSE MissingArgument

\* A worker attempt without a registry address, and with --no-ui and a shard
\* count besides, has failed with MissingArgument.
C4_Witness ==
  \E p \in Procs :
    /\ ~inp[p].head /\ inp[p].redis_address = None
    /\ inp[p].no_ui /\ inp[p].num_redis_shards # None
    /\ pc[p] = "failed" /\ err[p] = Raise(MissingArgument, "redis_address")
    /\ ~Has(steps[p], "connect")

\* C5 as stated: a head attempt given a registry address fails with
\* ArgumentConflict, whatever its other arguments, and start_ray_head is not
\* called.
C5_Original ==
  \A p \in Procs :
    Active(p) /\ inp[p].head /\ inp[p].redis_address # None =>
      /\ boot[p] = None
      /\ Ended(p) => pc[p] = "failed" /\ err[p].kind = ArgumentConflict

\* C5: a head attempt given a registry address fails and start_ray_head is
\* not called; the error is ArgumentConflict unless the address conversion or
\* the resource text (unparseable, or a reserved name) fails first.
C5_HeadWithAddress ==
  \A p \in Procs :
    Active(p) /\ inp[p].head /\ inp[p].redis_address # None =>
      /\ boot[p] = None
      /\ ~Has(steps[p], "start_ray_head")
      /\ pc[p] \in {"convert", "resources", "head_validate", "failed"}
      /\ pc[p] = "failed" =>
           err[p].kind =
             IF PreambleError(inp[p]) # NoError THEN PreambleError(inp[p])
             ELSE ArgumentConflict

\* A head attempt given a registry address has failed on that argument.
C5_Witness ==
  \E p \in Procs :
    /\ inp[p].head /\ inp[p].redis_address # None
    /\ pc[p] = "failed" /\ err[p] = Raise(ArgumentConflict, "redis_address")
    /\ boot[p] = None

\* An option that only a head takes is given.
HeadOnlyGiven(a) ==
  \/ a.redis_port # None
  \/ a.redis_shard_ports # None
  \/ a.num_redis_shards # None
  \/ a.redis_max_clients # None
  \/ a.no_ui

\* C6 as stated: a worker attempt given a head-only option fails with
\* ArgumentConflict before any network I/O: no connection attempt and no
\* address lookup.
C6_Original ==
  \A p \in Procs :
    Active(p) /\ ~inp[p].head /\ HeadOnlyGiven(inp[p]) =>
      /\ ~Has(steps[p], "connect")
      /\ ~Has(steps[p], "lookup")
      /\ Ended(p) => pc[p] = "failed" /\ err[p].kind = ArgumentConflict

\* C6: a worker attempt given a head-only option fails, once, before any
\* connection attempt to the registry and after the lookups that convert the
\* hostnames given as node and registry address (one for each, no others).
\* The error is ArgumentConflict unless an earlier check fails: the address
\* conversion, the resource text, or, when neither --redis-port nor
\* --redis-shard-ports is the option given, the missing registry address.
C6_WorkerHeadOnly ==
  \A p \in Procs :
    Active(p) /\ ~inp[p].head /\ HeadOnlyGiven(inp[p]) =>
      /\ ~Has(steps[p], "connect")
      /\ boot[p] = None
      /\ pc[p] \in {"convert", "resources", "worker_validate", "failed"}
      /\ \A i \in 1..Len(steps[p]) : steps[p][i] = "lookup"
      /\ pc[p] # "convert" /\ ~ConversionFails(inp[p]) =>
           Len(steps[p]) = HostnamesGiven(inp[p])
      /\ pc[p] = "failed" =>
           err[p].kind =
             IF PreambleError(inp[p]) # NoError THEN PreambleError(inp[p])
             ELSE IF inp[p].redis_port # None \/ inp[p].redis_shard_ports # None
               THEN ArgumentConflict
             ELSE IF inp[p].redis_address = None THEN MissingArgument
             ELSE ArgumentConflict

\* A worker attempt given --no-ui and a registry address with a hostname has
\* failed with ArgumentConflict, after the lookup of the hostname and no
\* connection attempt.
C6_Witness ==
  \E p \in Procs :
    /\ ~inp[p].head /\ inp[p].no_ui
    /\ inp[p].redis_address = Some(NamedAddress)
    /\ pc[p] = "failed" /\ err[p] = Raise(ArgumentConflict, "no_ui")
    /\ steps[p] = <<"lookup">>

\* The "deleted" value of the registry's record r1.
DeletedOfR1 == redis[<<REDIS_CLIENT_TABLE_PREFIX, "r1">>]["deleted"].b

\* An optionally signed run of decimal digits.
IsNumber(d) ==
  \/ Len(d) > 0 /\ \A i \in 1..Len(d) : d[i] \in Digits
  \/ Len(d) > 1 /\ d[1] = "-" /\ \A i \in 2..Len(d) : d[i] \in Digits

\* C7 as stated: "0" decodes to false (the record is live: a conflict), "1"
\* to true (the record is skipped), and any other value is a decode error.
C7_Original ==
  \A p \in Procs :
    ScanOver(p) =>
      IF DeletedOfR1 = Str("0") THEN err[p].kind = DuplicateNodeRegistration
      ELSE IF DeletedOfR1 = Str("1") THEN Has(steps[p], "clear")
      ELSE err[p].kind = DecodeError

\* C7: "0" decodes to false and "1" to true; any other optionally signed run
\* of decimal digits decodes too, to false when every digit is 0 ("00", "-0")
\* and to true otherwise ("2", "-1", "10"); a value that is no such run is a
\* decode error.
C7_DeletedDecoding ==
  \A p \in Procs :
    ScanOver(p) =>
      IF ~IsNumber(DeletedOfR1) THEN err[p].kind = DecodeError
      ELSE IF \A i \in 1..Len(DeletedOfR1) : DeletedOfR1[i] \in {"0", "-"}
        THEN err[p].kind = DuplicateNodeRegistration
      ELSE Has(steps[p], "clear")

\* The check has returned Clear against a record of the node's address whose
\* "deleted" is "2": the record counted as deleted.
C7_Witness ==
  \E p \in Procs :
    /\ pc[p] = "start_node"
    /\ DeletedOfR1 = Str("2")
    /\ Has(steps[p], "hgetall")

BuildDone(p) ==
  /\ pc[p] \notin {"none", "convert", "resources"}
  /\ err[p].kind \notin {LookupFailed, ResourcesUnparseable, ReservedNameConflict}

\* C9: the built specification holds every entry of the generic map
\* unchanged, "CPU" exactly when --num-cpus is given (0 included) and then
\* with that value, "GPU" likewise, and nothing else; it is what the
\* bootstrap call is given.
C9_ResourceSpec ==
  \A p \in Procs :
    BuildDone(p) =>
      LET g == JsonLoads(inp[p].resources)
          r == loc[p].resources
      IN /\ DOMAIN r \subseteq DOMAIN g \cup {"CPU", "GPU"}
         /\ \A n \in DOMAIN g : n \in DOMAIN r /\ r[n] = g[n]
         /\ "CPU" \in DOMAIN r <=> inp[p].num_cpus # None
         /\ "GPU" \in DOMAIN r <=> inp[p].num_gpus # None
         /\ inp[p].num_cpus # None => r["CPU"] = inp[p].num_cpus[1]
         /\ inp[p].num_gpus # None => r["GPU"] = inp[p].num_gpus[1]
         /\ boot[p] # None => boot[p][1].resources = r

\* An attempt given --num-cpus 0, no --num-gpus and a custom resource has
\* called the bootstrap with CPU = 0, no GPU and the custom resource.
C9_Witness ==
  \E p \in Procs :
    /\ inp[p].num_cpus = Some(0) /\ inp[p].num_gpus = None
    /\ boot[p] # None
    /\ DOMAIN boot[p][1].resources = {"CPU", "Custom"}
    /\ boot[p][1].resources["CPU"] = 0
    /\ boot[p][1].resources["Custom"] = 2

\* The number of ports of a comma-separated list.
NumPorts(text) == Count(text, ",") + 1

\* C10: a head attempt given a shard-port list. Without a shard count the
\* bootstrap is given the length of the list as the count; with a count that
\* is not the length, validation fails with ArgumentConflict and the
\* bootstrap is not called; with a count that is the length the shard
\* arguments pass, and the attempt goes on to the bootstrap unless another
\* argument fails.
C10_ShardCount ==
  \A p \in Procs :
    Active(p) /\ inp[p].head /\ inp[p].redis_shard_ports # None =>
      LET n == NumPorts(inp[p].redis_shard_ports[1])
          given == inp[p].num_redis_shards
      IN IF given = None \/ given = Some(n)
         THEN /\ err[p].arg # "num_redis_shards"
              /\ boot[p] # None =>
                   /\ boot[p][1].num_redis_shards = Some(n)
                   /\ Len(boot[p][1].redis_shard_ports[1]) = n
              /\ /\ PreambleError(inp[p]) = NoError
                 /\ inp[p].redis_address = None
                 /\ pc[p] = "failed"
                 => err[p].kind = BootstrapFailed
         ELSE /\ boot[p] = None
              /\ pc[p] \in {"convert", "resources", "head_validate", "failed"}
              /\ pc[p] = "failed" /\ PreambleError(inp[p]) = NoError =>
                   err[p] = Raise(ArgumentConflict, "num_redis_shards")

\* A head attempt given two shard ports and no shard count has called
\* start_ray_head with a shard count of 2.
C10_Witness ==
  \E p \in Procs :
    /\ inp[p].head
    /\ inp[p].redis_shard_ports = Some(ShardPortsText(2))
    /\ inp[p].num_redis_shards = None
    /\ boot[p] # None
    /\ boot[p][1].num_redis_shards = Some(2)

\* A head attempt given two shard ports and a shard count of 3 has failed
\* with ArgumentConflict.
C10_WitnessMismatch ==
  \E p \in Procs :
    /\ inp[p].head
    /\ inp[p].redis_shard_ports = Some(ShardPortsText(2))
    /\ inp[p].num_redis_shards = Some(3)
    /\ pc[p] = "failed" /\ err[p] = Raise(ArgumentConflict, "num_redis_shards")

\* The key of the client record the node started by attempt p registers.
OwnKey(p) == <<REDIS_CLIENT_TABLE_PREFIX, ToString(p)>>

\* Attempt p has failed without reaching the bootstrap call.
FailedBeforeBootstrap(p) == pc[p] = "failed" /\ err[p].kind # BootstrapFailed

\* C11: no attempt writes to the registry before its bootstrap: the registry
\* changes only in the step in which some attempt's start_ray_node returns,
\* and then by that node's record alone; an attempt that has failed before
\* the bootstrap has no record of its own in the registry.
C11_NoWriteBeforeBootstrap ==
  /\ [](\A p \in Procs : FailedBeforeBootstrap(p) => OwnKey(p) \notin DOMAIN redis)
  /\ [][redis' # redis =>
          \E p \in Procs :
            /\ pc[p] = "start_node" /\ pc'[p] = "block"
            /\ DOMAIN redis' = DOMAIN redis \cup {OwnKey(p)}
            /\ \A k \in DOMAIN redis \ {OwnKey(p)} : redis'[k] = redis[k]]_vars

\* An attempt has failed at the duplicate check while another attempt has
\* bootstrapped and registered: the registry changed, by the other attempt.
C11_Witness ==
  \E p, q \in Procs :
    /\ p # q
    /\ pc[p] = "failed"
    /\ err[p].kind \in {DuplicateNodeRegistration, FieldMissing}
    /\ OwnKey(q) \in DOMAIN redis
    /\ OwnKey(p) \notin DOMAIN redis

\* C12: the wait for the registry ends. A worker attempt that waits makes at
\* most MaxRetries failed connection attempts; while the registry stays
\* unreachable the attempt ends in Failed with the error of the wait, and an
\* attempt that has failed so has read no version, listed no client keys and
\* called no bootstrap.
C12_WaitTerminates ==
  /\ [](\A p \in Procs :
         /\ retries[p] <= MaxRetries
         /\ pc[p] = "failed" /\ err[p].kind = RegistryUnreachable =>
              /\ retries[p] = MaxRetries
              /\ Without(steps[p], {"lookup"}) = <<"connect">>
              /\ client_keys[p] = {}
              /\ boot[p] = None /\ address_info[p] = None)
  /\ \A p \in Procs :
       (pc[p] = "wait_redis")
         ~> (\/ redis_up
             \/ pc[p] = "failed" /\ err[p].kind \in {RegistryUnreachable, MalformedPort})

\* A worker attempt has given up on a registry that never came up, after
\* MaxRetries failed connection attempts.
C12_Witness ==
  \E p \in Procs :
    /\ ~redis_up
    /\ pc[p] = "failed" /\ err[p] = Raise(RegistryUnreachable, "redis_address")
    /\ retries[p] = MaxRetries
    /\ steps[p] = <<"connect">>

\* C13: against a registry whose version is not the build's, a worker attempt
\* that has read the version has failed with VersionMismatch, whatever client
\* records the registry holds: it has listed no client keys, read no client
\* record and called no bootstrap, and no attempt fails there with
\* DuplicateNodeRegistration.
C13_VersionBeforeDuplicate ==
  \A p \in Procs :
    ~VersionMatches(redis) =>
      /\ err[p].kind # DuplicateNodeRegistration
      /\ Has(steps[p], "read_version") =>
           /\ pc[p] = "failed" /\ err[p] = Raise(VersionMismatch, "redis_address")
           /\ Without(steps[p], {"lookup"}) = <<"connect", "ready", "read_version">>
           /\ client_keys[p] = {}
           /\ boot[p] = None /\ address_info[p] = None

\* A worker attempt at 10.0.0.5 has failed with VersionMismatch against a
\* registry of another version that holds a live record of 10.0.0.5.
C13_Witness ==
  \E p \in Procs :
    /\ ~VersionMatches(redis)
    /\ inp[p].node_ip_address = Some(Str(IP5))
    /\ LiveRecordOf(redis, Str(IP5))
    /\ pc[p] = "failed" /\ err[p].kind = VersionMismatch

\* A client record that lacks one of the four fields.
Malformed(info) == ~(ClientFields \subseteq DOMAIN info)

\* The client keys the scan of attempt p has read the record of.
KeysRead(p) ==
  IF Has(steps[p], "keys") THEN GivenKeys \ client_keys[p] ELSE {}

\* C14: a record that lacks one of the four fields is never skipped: once the
\* scan has read such a record, deleted or not, of the node's address or of
\* another, the check has failed with FieldMissing on that record; and
\* against a registry that holds such a record the check never returns Clear:
\* it fails, on that record or on one read before it.
C14_MalformedIsFatal ==
  \A p \in Procs :
    /\ \A k \in KeysRead(p) :
         Malformed(redis[k]) =>
           pc[p] = "failed" /\ err[p] = Raise(FieldMissing, k[2])
    /\ ScanOver(p) /\ (\E k \in GivenKeys : Malformed(redis[k])) =>
         /\ pc[p] = "failed"
         /\ err[p].kind \in {FieldMissing, DuplicateNodeRegistration, DecodeError}
         /\ ~Has(steps[p], "clear")
         /\ boot[p] = None

\* The check at 10.0.0.6 has failed with FieldMissing on a record of
\* 10.0.0.5 that is marked deleted and lacks its client type.
C14_Witness ==
  \E p \in Procs :
    /\ loc[p].node_ip_address = Some(Str(IP6))
    /\ pc[p] = "failed" /\ err[p].kind = FieldMissing
    /\ \E k \in KeysRead(p) :
         /\ k[2] = err[p].arg
         /\ redis[k] = Lacking(ClientRecord("n", IP5, Str("1")), "client_type")

\* Attempt p is in state Done: its bootstrap call has returned.
Done(p) == pc[p] \in {"block", "idle", "exit"}

\* C16: an attempt yields an address bundle exactly when it is Done, and the
\* bundle is the one its bootstrap call returned; an attempt that has failed,
\* in the bootstrap call or before it, has yielded none.
C16_AddressInfoOnlyWhenDone ==
  \A p \in Procs :
    /\ logged[p] # None <=> Done(p)
    /\ logged[p] = address_info[p]
    /\ Done(p) => boot[p] # None /\ Has(steps[p], "start_ray_" \o boot[p][1].kind)
    /\ pc[p] = "failed" => logged[p] = None /\ address_info[p] = None

\* A worker attempt is Done with the bundle its bootstrap returned, and
\* another has failed in its bootstrap call with none.
C16_Witness ==
  \E p, q \in Procs :
    /\ Done(p) /\ ~inp[p].head /\ logged[p] = Some(AddressInfo("node", loc[p]))
    /\ pc[q] = "failed" /\ err[q].kind = BootstrapFailed /\ logged[q] = None

\* What attempt p has done and where it is.
Progress(p) == <<pc[p], err[p], steps[p], retries[p], client_keys[p], boot[p]>>

\* C17: in one attempt the version is read at most once, the client keys are
\* listed at most once and each listed record is read at most once, and a
\* bootstrap is called at most once; an attempt that has failed does nothing
\* more; the only step an attempt repeats in place is the connection attempt
\* of the wait, at most MaxRetries times, and the read of the next record of
\* the one scan.
C17_NoRetries ==
  /\ [](\A p \in Procs :
         /\ Count(steps[p], "read_version") <= 1
         /\ Count(steps[p], "keys") <= 1
         /\ Count(steps[p], "start_ray_node") + Count(steps[p], "start_ray_head") <= 1
         /\ Count(steps[p], "connect") <= 1
         /\ retries[p] <= MaxRetries)
  /\ [][\A p \in Procs :
          /\ pc[p] = "failed" => Progress(p)' = Progress(p)
          /\ pc'[p] = pc[p] /\ Progress(p)' # Progress(p) =>
               \/ /\ pc[p] = "wait_redis"
                  /\ retries'[p] = retries[p] + 1
               \/ /\ pc[p] = "check_client"
                  /\ client_keys'[p] \subseteq client_keys[p]
                  /\ client_keys'[p] # client_keys[p]]_vars

\* An attempt has failed in its one bootstrap call, after one read of the
\* version and one scan, while another is at its second connection attempt.
C17_Witness ==
  \E p, q \in Procs :
    /\ pc[p] = "failed" /\ err[p].kind = BootstrapFailed
    /\ Count(steps[p], "read_version") = 1
    /\ Count(steps[p], "keys") = 1
    /\ Count(steps[p], "start_ray_node") = 1
    /\ pc[q] = "wait_redis" /\ retries[q] = 1

\* What the duplicate check of attempt p came to.
Outcome(p) == IF Has(steps[p], "clear") THEN "Clear" ELSE err[p].kind

\* The errors the records of the registry raise in a check at address ip.
Faults(ip) ==
  {ClientVerdict(redis[k], ip) : k \in GivenKeys} \ {"skip", "pass"}

\* Attempts p and q have both ended their check, at one address and of one
\* registry snapshot: no attempt has registered a node yet.
SameScan(p, q) ==
  /\ ScanOver(p) /\ ScanOver(q)
  /\ loc[p].node_ip_address = loc[q].node_ip_address
  /\ \A r \in Procs : OwnKey(r) \notin DOMAIN redis

\* C18 as stated: two checks of one snapshot at one address come to the same
\* outcome, whatever order each read the records in.
C18_Original ==
  \A p, q \in Procs : SameScan(p, q) => Outcome(p) = Outcome(q)

\* C18: whether the check returns Clear does not depend on the order of the
\* keys: it does exactly when no record of the snapshot raises an error. A
\* check that fails raises the error of one of the records, the first such
\* record in its order, so two checks agree on the error when the records of
\* the snapshot raise one kind of error only.
C18_OrderIndependence ==
  \A p, q \in Procs :
    SameScan(p, q) =>
      LET faults == Faults(loc[p].node_ip_address[1])
      IN /\ Outcome(p) = "Clear" <=> faults = {}
         /\ Outcome(p) = "Clear" <=> Outcome(q) = "Clear"
         /\ Outcome(p) # "Clear" => Outcome(p) \in faults
         /\ Cardinality(faults) <= 1 => Outcome(p) = Outcome(q)

\* Two checks at 10.0.0.5 of one registry with two live records of 10.0.0.5
\* have both raised the conflict, each on the record the other did not read.
C18_Witness ==
  \E p, q \in Procs :
    /\ p # q /\ SameScan(p, q)
    /\ Cardinality(GivenKeys) = 2
    /\ Outcome(p) = DuplicateNodeRegistration
    /\ Outcome(q) = DuplicateNodeRegistration
    /\ err[p].arg # err[q].arg

\* The number of ":" in the registry address attempt p was given.
Separators(p) == Count(inp[p].redis_address[1], ":")

\* C19: a worker attempt given a registry address. When the address has no
\* ":" or more than one, the attempt fails without any connection attempt,
\* and with MalformedAddress when its other arguments pass the checks that
\* come before the split (the resource text, the head-only options). When it
\* has exactly one, the split never fails, and gives as host the text before
\* the ":" of the converted address and as port the text after it.
C19_AddressSplit ==
  \A p \in Procs :
    Active(p) /\ ~inp[p].head /\ inp[p].redis_address # None =>
      IF Separators(p) # 1
      THEN /\ ~Has(steps[p], "connect")
           /\ boot[p] = None
           /\ pc[p] \in {"convert", "resources", "worker_validate", "failed"}
           /\ pc[p] = "failed" =>
                err[p].kind =
                  IF PreambleError(inp[p]) # NoError THEN PreambleError(inp[p])
                  ELSE IF HeadOnlyGiven(inp[p]) THEN ArgumentConflict
                  ELSE MalformedAddress
      ELSE /\ err[p].kind # MalformedAddress
           /\ /\ PreambleError(inp[p]) = NoError
              /\ ~HeadOnlyGiven(inp[p])
              /\ pc[p] \notin {"convert", "resources", "worker_validate"}
              => /\ loc[p].redis_ip_address # None
                 /\ Join(<<loc[p].redis_ip_address[1], loc[p].redis_port[1]>>, ":")
                      = loc[p].redis_address[1]
                 /\ ~Has(loc[p].redis_ip_address[1], ":")
                 /\ ~Has(loc[p].redis_port[1], ":")
                 /\ loc[p].redis_address[1] = address_to_ip(inp[p].redis_address[1])

\* A worker attempt given an address with two separators and no other
\* argument has failed with MalformedAddress without trying to connect.
C19_Witness ==
  \E p \in Procs :
    /\ ~inp[p].head /\ inp[p].redis_address = Some(TwoSeparators)
    /\ ~HeadOnlyGiven(inp[p])
    /\ pc[p] = "failed" /\ err[p] = Raise(MalformedAddress, "redis_address")
    /\ ~Has(steps[p], "connect")

\* A worker attempt given hostR:6379 is past the split with host 10.0.0.1
\* and port 6379.
C19_WitnessSplit ==
  \E p \in Procs :
    /\ ~inp[p].head /\ inp[p].redis_address = Some(NamedAddress)
    /\ loc[p].redis_ip_address = Some(Str(RedisIP))
    /\ loc[p].redis_port = Some(<<"6", "3", "7", "9">>)

\* C20: the idle loop is entered only after a successful join and only with
\* --block: an attempt in the loop was given --block and has its address
\* bundle, and it stays in the loop for ever; an attempt that has failed stays
\* failed and never idles; an attempt given --block never exits, and one
\* whose bootstrap has returned comes to idle if it was given --block and
\* exits if it was not.
C20_BlockAfterJoin ==
  /\ [](\A p \in Procs :
         /\ pc[p] = "idle" =>
              inp[p].block /\ logged[p] # None /\ err[p] = NoErr
         /\ pc[p] = "exit" => ~inp[p].block /\ logged[p] # None
         /\ pc[p] = "failed" => logged[p] = None)
  /\ [][\A p \in Procs :
          /\ pc[p] = "idle" => pc'[p] = "idle"
          /\ pc[p] = "failed" => pc'[p] = "failed"
          /\ pc[p] = "exit" => pc'[p] = "exit"]_vars
  /\ \A p \in Procs :
       /\ (Done(p) /\ inp[p].block) ~> [](pc[p] = "idle")
       /\ (Done(p) /\ ~inp[p].block) ~> [](pc[p] = "exit")

\* A worker attempt given --block idles after its bootstrap returned.
C20_Witness ==
  \E p \in Procs :
    /\ ~inp[p].head /\ inp[p].block
    /\ pc[p] = "idle"
    /\ Has(steps[p], "start_ray_node")
    /\ logged[p] # None

\* A worker attempt given --block has failed, at the duplicate check, and
\* does not idle.
C20_WitnessFailed ==
  \E p \in Procs :
    /\ inp[p].block
    /\ pc[p] = "failed" /\ err[p].kind = DuplicateNodeRegistration

\* C21: a head attempt goes from the validation of its arguments to
\* start_ray_head: besides the lookup of its own address it takes no step
\* but that call, it never connects to a registry, reads no version, lists
\* and reads no client record, and fails with none of their errors, whatever
\* client records a registry holds.
C21_HeadDirectBootstrap ==
  \A p \in Procs :
    inp[p].head =>
      /\ pc[p] \in {"none", "convert", "resources", "head_validate", "start_head",
                    "block", "idle", "exit", "failed"}
      /\ IsPrefix(Without(steps[p], {"lookup"}), <<"start_ray_head">>)
      /\ retries[p] = 0
      /\ client_keys[p] = {}
      /\ err[p].kind \in {NoError, LookupFailed, ResourcesUnparseable,
                           ReservedNameConflict, ArgumentConflict, BootstrapFailed}
      /\ boot[p] # None => boot[p][1].kind = "head"

\* A head attempt at 10.0.0.5 is Done while the registry of the workers
\* holds a live record of 10.0.0.5 and is not even reachable.
C21_Witness ==
  \E p \in Procs :
    /\ inp[p].head /\ Done(p)
    /\ loc[p].node_ip_address = Some(Str(IP5))
    /\ LiveRecordOf(redis, Str(IP5))
    /\ ~redis_up
    /\ steps[p] = <<"lookup", "start_ray_head">>

\* The argument rules of a worker in the order of their precedence, each
\* with the error its violation raises.
WorkerRules ==
  <<Raise(ReservedNameConflict, "resources"),
    Raise(ArgumentConflict, "redis_port"),
    Raise(ArgumentConflict, "redis_shard_ports"),
    Raise(MissingArgument, "redis_address"),
    Raise(ArgumentConflict, "num_redis_shards"),
    Raise(ArgumentConflict, "redis_max_clients"),
    Raise(ArgumentConflict, "no_ui"),
    Raise(MalformedAddress, "redis_address")>>

\* Whether arguments a violate rule i of WorkerRules.
Violates(a, i) ==
  CASE i = 1 -> Reserved(a)
    [] i = 2 -> a.redis_port # None
    [] i = 3 -> a.redis_shard_ports # None
    [] i = 4 -> a.redis_address = None
    [] i = 5 -> a.num_redis_shards # None
    [] i = 6 -> a.redis_max_clients # None
    [] i = 7 -> a.no_ui
    [] OTHER -> a.redis_address # None /\ Count(a.redis_address[1], ":") # 1

Violations(a) == {i \in DOMAIN WorkerRules : Violates(a, i)}

\* C22: a worker attempt whose addresses convert and whose resource text
\* parses fails in validation exactly when its arguments violate a rule, and
\* the error is then that of the violated rule that comes first in the one
\* precedence: reserved resource name, --redis-port, --redis-shard-ports,
\* missing registry address, --num-redis-shards, --redis-max-clients,
\* --no-ui, malformed address. The error is a function of the arguments.
C22_ErrorPrecedence ==
  \A p \in Procs :
    /\ Active(p) /\ ~inp[p].head
    /\ ~ConversionFails(inp[p]) /\ JsonParses(inp[p].resources)
    => LET v == Violations(inp[p])
       IN IF v = {}
          THEN err[p].kind \notin {ReservedNameConflict, ArgumentConflict,
                                   MissingArgument, MalformedAddress}
          ELSE /\ pc[p] \in {"convert", "resources", "worker_validate", "failed"}
               /\ ~Has(steps[p], "connect")
               /\ pc[p] = "failed" =>
                    \E i \in v : /\ err[p] = WorkerRules[i]
                                 /\ \A j \in v : i <= j

\* A worker attempt that violates six rules at once (--redis-port, a
\* shard-port list, no registry address, a shard count, --redis-max-clients
\* and --no-ui) has failed on --redis-port.
C22_Witness ==
  \E p \in Procs :
    /\ ~inp[p].head
    /\ Violations(inp[p]) = {2, 3, 4, 5, 6, 7}
    /\ pc[p] = "failed" /\ err[p] = Raise(ArgumentConflict, "redis_port")

\* A worker attempt that violates the last three rules (--redis-max-clients,
\* --no-ui, a malformed address) has failed on --redis-max-clients.
C22_WitnessLast ==
  \E p \in Procs :
    /\ ~inp[p].head
    /\ Violations(inp[p]) = {6, 7, 8}
    /\ pc[p] = "failed" /\ err[p] = Raise(ArgumentConflict, "redis_max_clients")

\* The steps of a worker attempt that was given no address of its own and a
\* numerical registry address, in order: its one lookup is that of its own
\* address.
UnnamedWorkerOrder ==
  <<"connect", "ready", "read_version", "version_ok", "lookup", "keys",
    "clear", "start_ray_node">>

\* C23: a worker attempt has an address of its own whenever it scans. Given
\* none, it looks one up after the version check has passed (so after the
\* wait succeeded) and before the client keys are listed, and has none until
\* then; from the listing of the keys on the address does not change, and
\* it is the address start_ray_node is given.
C23_SelfAddress ==
  /\ [](\A p \in Procs :
         ~inp[p].head =>
           /\ pc[p] \in {"scan_keys", "check_client", "start_node"}
                \/ Has(steps[p], "keys")
                => loc[p].node_ip_address # None
           /\ inp[p].node_ip_address = None /\ loc[p].node_ip_address # None
                => Has(steps[p], "ready") /\ Has(steps[p], "version_ok")
           /\ inp[p].node_ip_address = None /\ inp[p].redis_address # None
                /\ ~IsHostname(inp[p].redis_address[1])
                => IsPrefix(Without(steps[p], {"hgetall"}), UnnamedWorkerOrder)
           /\ inp[p].node_ip_address # None
                => loc[p].node_ip_address = Some(address_to_ip(inp[p].node_ip_address[1]))
                   \/ pc[p] = "convert"
           /\ boot[p] # None
                => boot[p][1].node_ip_address = loc[p].node_ip_address)
  /\ [][\A p \in Procs :
          pc[p] \in {"scan_keys", "check_client", "start_node"} =>
            loc'[p].node_ip_address = loc[p].node_ip_address]_vars

\* A worker attempt given no address of its own has looked it up between
\* the version check and the scan, read a client record, and given the
\* address to start_ray_node.
C23_Witness ==
  \E p \in Procs :
    /\ ~inp[p].head /\ inp[p].node_ip_address = None
    /\ Without(steps[p], {"hgetall"}) = UnnamedWorkerOrder
    /\ Has(steps[p], "hgetall")
    /\ boot[p] # None
    /\ boot[p][1].node_ip_address = loc[p].node_ip_address
    /\ loc[p].node_ip_address = Some(Str(IP6))

====
